---- MODULE Spec2Model ----
(***************************************************************************)
(* State-machine model of the Circuit remote script (src/Circuit.py): the  *)
(* mode switcher, the LED interpolation writer, the idle lightshow, the    *)
(* brightness knob and the clip-state colour policy, driven through the    *)
(* host's schedule_message / cancel_scheduled_messages task queue.         *)
(*                                                                         *)
(* Time is kept as the remaining delay (ms) of every pending task.  The    *)
(* host delivers every task that is due before it hands the script the     *)
(* next input event, and tasks due at the same instant fire in submission  *)
(* order.                                                                  *)
(***************************************************************************)
EXTENDS Integers, Sequences, FiniteSets, TLC

VARIABLES mode_index, is_idle, led_state, idle_step, idle_task,
          pad_colors, slots, pending, midi, ev, inputs, switches

vars == <<mode_index, is_idle, led_state, idle_step, idle_task,
          pad_colors, slots, pending, midi, ev, inputs, switches>>

(***************************************************************************)
(* Bounds of the model                                                     *)
(***************************************************************************)
MaxInputs == 2
MaxSwitches == 3
MaxIdleSteps == 2
MaxSteps == 4
MaxPresses == 2

(***************************************************************************)
(* Program constants                                                       *)
(***************************************************************************)
NumModes == 3
NumRows == 2
NumCols == 4
FirstPad == 36
ModeLed == 40
IdleArmDelay == 1000
IdleStepDelay == 50
IdleSteps == 10
IdleDuration == 500
DefaultSteps == 20
ModeDuration == 1000
ClipDuration == 200
RainbowPeriod == 50
ChannelMax == 127
NoteOn == 144
BlueStatus == 146

COLOR_OFF == 0
COLOR_RED == 15
COLOR_GREEN == 60
COLOR_AMBER == 61
COLOR_BLUE_HALF == 46
COLOR_PLAYING == 60
COLOR_TRIGGERED == 62
COLOR_STOPPED == 15
COLOR_RECORDING == 7
COLOR_EMPTY == 46

Pads == 0 .. (NumRows * NumCols - 1)
PadNote(p) == FirstPad + p

(***************************************************************************)
(* _update_mode_leds: the indicator colour of a mode                       *)
(* (0 = Session, 1 = Mixer, 2 = Effects)                                   *)
(***************************************************************************)
ModeColor(m) ==
  IF m = 0 THEN <<127, 0, 127>>
  ELSE IF m = 1 THEN <<0, 127, 127>>
  ELSE <<127, 127, 0>>

NextModeSkip(m) == (m + 2) % NumModes

NextMode(m) == (m + 1) % NumModes

(***************************************************************************)
(* Colour arithmetic                                                       *)
(***************************************************************************)
\* The cases where the double-precision product diff * (k / steps) falls
\* just below the exact integer and the sum with cur is still below it, so
\* that int() yields one less than the exact quotient (all cases with
\* steps <= 20 and channels in 0..127).
FloatShort(steps, k, cur, diff) ==
  \/ steps = 10 /\ k = 7  /\ diff = 90   /\ cur \in 0 .. 1
  \/ steps = 11 /\ k = 3  /\ diff = 55   /\ cur \in 0 .. 1
  \/ steps = 11 /\ k = 3  /\ diff = 99   /\ cur \in 0 .. 5
  \/ steps = 11 /\ k = 3  /\ diff = 110  /\ cur \in 0 .. 2
  \/ steps = 11 /\ k = 6  /\ diff = 55   /\ cur \in 0 .. 2
  \/ steps = 11 /\ k = 6  /\ diff = 99   /\ cur \in 0 .. 10
  \/ steps = 11 /\ k = 6  /\ diff = 110  /\ cur \in 0 .. 4
  \/ steps = 11 /\ k = 9  /\ diff = -77  /\ cur \in 77 .. 127
  \/ steps = 12 /\ k = 7  /\ diff = -108 /\ cur \in 108 .. 127
  \/ steps = 14 /\ k = 9  /\ diff = -98  /\ cur \in 98 .. 127
  \/ steps = 14 /\ k = 9  /\ diff = -84  /\ cur \in 84 .. 118
  \/ steps = 14 /\ k = 9  /\ diff = -42  /\ cur \in 42 .. 59
  \/ steps = 15 /\ k = 11 /\ diff = 75   /\ cur \in 0 .. 9
  \/ steps = 17 /\ k = 12 /\ diff = -85  /\ cur \in 85 .. 124
  \/ steps = 18 /\ k = 11 /\ diff = -90  /\ cur \in 90 .. 119
  \/ steps = 20 /\ k = 11 /\ diff = -100 /\ cur \in 100 .. 119
  \/ steps = 20 /\ k = 14 /\ diff = 90   /\ cur \in 0 .. 1

\* int(current + (target - current) * (step / steps)) for one channel
LerpChannel(cur, tgt, k, steps) ==
  LET exact == (cur * steps + (tgt - cur) * k) \div steps
  IN  IF FloatShort(steps, k, cur, tgt - cur) THEN exact - 1 ELSE exact

Lerp(c, t, k, steps) ==
  << LerpChannel(c[1], t[1], k, steps),
     LerpChannel(c[2], t[2], k, steps),
     LerpChannel(c[3], t[3], k, steps) >>

\* int(step * step_delay * 1000) with step_delay = duration / steps, the
\* duration given in ms (0, 200, 500 or 1000)
StepDelayReversed(dur, steps, k) == ((steps - k) * dur) \div steps

StepDelay(dur, steps, k) ==
  IF dur = 200 /\ steps = 19 /\ k = 19 THEN 199 ELSE (k * dur) \div steps

\* [int(c * brightness / 127) for c in current_color]
ScaleChannel128(c, level) == (c * level) \div (ChannelMax + 1)

ScaleChannel(c, level) == (c * level) \div ChannelMax

ScaleBrightness(c, level) ==
  << ScaleChannel(c[1], level), ScaleChannel(c[2], level),
     ScaleChannel(c[3], level) >>

RainbowColorUnbounded(note, step) ==
  LET offset == (note + step) % RainbowPeriod
  IN  << offset * 5, offset * 3, offset * 7 >>

\* rainbow_color of _lightshow_step
RainbowColor(note, step) ==
  LET offset == (note + step) % RainbowPeriod
  IN  << (offset * 5) % 127, (offset * 3) % 127, (offset * 7) % 127 >>

\* velocity = (color[0] & 0xF) << 4 | (color[1] & 0xF)
PackRG(c) == (c[1] % 16) * 16 + (c[2] % 16)

LedMessages(note, c) == << <<NoteOn, note, PackRG(c)>>, <<BlueStatus, note, c[3]>> >>

(***************************************************************************)
(* _led_state: a dict, kept as the sequence of its items in insertion      *)
(* order                                                                   *)
(***************************************************************************)
LedKeys(ls) == { ls[i].note : i \in 1 .. Len(ls) }
LedHas(ls, n) == n \in LedKeys(ls)
LedGet(ls, n) == ls[CHOOSE i \in 1 .. Len(ls) : ls[i].note = n].color
LedSet(ls, n, c) ==
  IF LedHas(ls, n)
  THEN [i \in 1 .. Len(ls) |-> IF ls[i].note = n THEN [note |-> n, color |-> c] ELSE ls[i]]
  ELSE Append(ls, [note |-> n, color |-> c])

(***************************************************************************)
(* Clip-state colour policy                                                *)
(***************************************************************************)
GetClipColorPlayingFirst(s) ==
  IF s.has_clip /\ s.is_playing THEN COLOR_PLAYING
  ELSE IF s.is_recording THEN COLOR_RECORDING
  ELSE IF s.has_clip
       THEN IF s.is_triggered THEN COLOR_TRIGGERED ELSE COLOR_STOPPED
       ELSE COLOR_EMPTY

GetClipColor(s) ==
  IF s.is_recording THEN COLOR_RECORDING
  ELSE IF s.has_clip
       THEN IF s.is_playing THEN COLOR_PLAYING
            ELSE IF s.is_triggered THEN COLOR_TRIGGERED
            ELSE COLOR_STOPPED
       ELSE COLOR_EMPTY

ColorToRgb(ci) ==
  IF ci = COLOR_PLAYING THEN <<0, 127, 0>>
  ELSE IF ci = COLOR_TRIGGERED THEN <<127, 127, 0>>
  ELSE IF ci = COLOR_STOPPED THEN <<127, 0, 0>>
  ELSE IF ci = COLOR_RECORDING THEN <<127, 0, 0>>
  ELSE IF ci = COLOR_EMPTY THEN <<0, 0, 64>>
  ELSE <<0, 0, 0>>

\* the pad colour _map_buttons_to_clip_launch lights for a slot
LaunchColor(s) ==
  IF s.has_clip THEN COLOR_GREEN
  ELSE IF s.controls_other_clips THEN COLOR_AMBER
  ELSE COLOR_BLUE_HALF

Slot(h, p, t, r, o) ==
  [has_clip |-> h, is_playing |-> p, is_triggered |-> t, is_recording |-> r,
   controls_other_clips |-> o]

EmptySlot == Slot(FALSE, FALSE, FALSE, FALSE, FALSE)

AllSlots == { Slot(h, p, t, r, o) : h \in BOOLEAN, p \in BOOLEAN, t \in BOOLEAN,
                                    r \in BOOLEAN, o \in BOOLEAN }

(***************************************************************************)
(* The host's task queue (schedule_message / cancel_scheduled_messages):   *)
(* pending tasks in submission order, each with its remaining delay and    *)
(* the handle schedule_message returned for it.  The fields k, steps,      *)
(* target and origin record the call that created a write and are read by  *)
(* no operation.                                                           *)
(***************************************************************************)
NoColor == <<0, 0, 0>>

NoTask ==
  [delay |-> 0, tok |-> 0, fn |-> "none", note |-> 0, color |-> NoColor,
   k |-> 0, steps |-> 0, target |-> NoColor, origin |-> "none"]

CallTask(d, f) == [NoTask EXCEPT !.delay = d, !.fn = f]

WriteTask(d, n, c, kk, st, tg, o) ==
  [delay |-> d, tok |-> 0, fn |-> "send_led_color", note |-> n, color |-> c,
   k |-> kk, steps |-> st, target |-> tg, origin |-> o]

\* a handle no pending task and no kept handle carries
FreshToken(pend, held) ==
  LET last == IF pend = <<>> THEN 0 ELSE pend[Len(pend)].tok
  IN  1 + (IF last > held THEN last ELSE held)

ScheduleMessage(pend, held, t) ==
  Append(pend, [t EXCEPT !.tok = FreshToken(pend, held)])

CancelAll(pend) == <<>>

CancelToken(pend, tk) == SelectSeq(pend, LAMBDA t : t.tok # tk)

Due(pend) == { i \in 1 .. Len(pend) : pend[i].delay = 0 }

\* the task delivered next: the earliest submitted of those due
DueIndex(pend) == CHOOSE i \in Due(pend) : \A j \in Due(pend) : i <= j

RemoveAt(pend, i) == SubSeq(pend, 1, i - 1) \o SubSeq(pend, i + 1, Len(pend))

MinDelay(pend) ==
  LET ds == { pend[i].delay : i \in 1 .. Len(pend) }
  IN  CHOOSE d \in ds : \A e \in ds : d <= e

Elapse(pend, d) == [i \in 1 .. Len(pend) |-> [pend[i] EXCEPT !.delay = @ - d]]

(***************************************************************************)
(* _interpolate_color(note, target_color, duration, steps): the state is   *)
(* the pair of _led_state and the task queue                               *)
(***************************************************************************)
InterpolateColorStale(ls, pend, held, note, target, dur, steps, origin) ==
  LET ls1  == IF LedHas(ls, note) THEN ls ELSE LedSet(ls, note, NoColor)
      cur  == LedGet(ls1, note)
      base == FreshToken(pend, held) - 1
      run  == [j \in 1 .. steps + 1 |->
                 [WriteTask(StepDelay(dur, steps, j - 1), note,
                            Lerp(cur, target, IF j = steps + 1 THEN steps - 1 ELSE j - 1, steps),
                            j - 1, steps, target, origin)
                  EXCEPT !.tok = base + j]]
  IN  [ls |-> ls1, pend |-> pend \o run]

InterpolateColor(ls, pend, held, note, target, dur, steps, origin) ==
  LET ls1  == IF LedHas(ls, note) THEN ls ELSE LedSet(ls, note, NoColor)
      cur  == LedGet(ls1, note)
      base == FreshToken(pend, held) - 1
      run  == [j \in 1 .. steps + 1 |->
                 [WriteTask(StepDelay(dur, steps, j - 1), note,
                            Lerp(cur, target, j - 1, steps),
                            j - 1, steps, target, origin)
                  EXCEPT !.tok = base + j]]
  IN  [ls |-> ls1, pend |-> pend \o run]

\* _update_mode_leds
UpdateModeLeds(ls, pend, held, m, origin) ==
  InterpolateColor(ls, pend, held, ModeLed, ModeColor(m), ModeDuration,
                   DefaultSteps, origin)

\* the loop of _lightshow_step over the keys of _led_state, from item i on
RECURSIVE LightshowRuns(_, _, _, _, _)
LightshowRuns(ls, pend, held, step, i) ==
  IF i > Len(ls) THEN pend
  ELSE LightshowRuns(ls,
         InterpolateColor(ls, pend, held, ls[i].note,
                          RainbowColor(ls[i].note, step), IdleDuration,
                          IdleSteps, "idle").pend,
         held, step, i + 1)

\* the loop of _on_clip_state_change over the grid, from pad p on
RECURSIVE ClipRuns(_, _, _, _, _)
ClipRuns(st, held, sl, p, origin) ==
  IF p >= NumRows * NumCols THEN st
  ELSE ClipRuns(InterpolateColor(st.ls, st.pend, held, PadNote(p),
                                 ColorToRgb(GetClipColor(sl[p])), ClipDuration,
                                 DefaultSteps, origin),
                held, sl, p + 1, origin)

\* the MIDI messages and _pad_colors of _map_buttons_to_clip_launch
LaunchMessages(sl) ==
  [j \in 1 .. NumRows * NumCols |-> <<NoteOn, PadNote(j - 1), LaunchColor(sl[j - 1])>>]

LaunchPadColors(sl) == [p \in Pads |-> LaunchColor(sl[p])]

FixedMessages(c) == [j \in 1 .. NumRows * NumCols |-> <<NoteOn, PadNote(j - 1), c>>]

FixedPadColors(c) == [p \in Pads |-> c]

\* update_pads
UpdatePadsMessages(m, sl) ==
  IF m = 0 THEN LaunchMessages(sl)
  ELSE IF m = 1 THEN FixedMessages(COLOR_GREEN)
  ELSE FixedMessages(COLOR_RED)

UpdatePadsColors(m, sl) ==
  IF m = 0 THEN LaunchPadColors(sl)
  ELSE IF m = 1 THEN FixedPadColors(COLOR_GREEN)
  ELSE FixedPadColors(COLOR_RED)

\* _apply_mode_settings
ApplyModeMessages(m, sl) == IF m = 0 THEN LaunchMessages(sl) ELSE <<>>

\* what the latest step was: its handler, its input value, the task it
\* delivered, the number of pending tasks its cancel call removed, and the
\* handler of the latest input event
Event(kind, value, task, cancelled) ==
  [kind |-> kind, value |-> value, task |-> task, cancelled |-> cancelled,
   input |-> IF kind \in {"fire", "tick"} THEN ev.input ELSE kind]

(***************************************************************************)
(* Circuit.__init__: the state once construction is complete, with every   *)
(* slot of the host empty.  The messages of the initial pad update are not *)
(* kept in midi.  (_setup_pad_matrix runs update_pads before               *)
(* _setup_session has created _session; the model takes the pad update as  *)
(* done.)                                                                  *)
(***************************************************************************)
Init ==
  /\ mode_index = 0
  /\ is_idle = FALSE
  /\ led_state = <<>>
  /\ idle_step = 0
  /\ idle_task = 0
  /\ slots = [p \in Pads |-> EmptySlot]
  /\ pad_colors = LaunchPadColors(slots)
  /\ pending = ScheduleMessage(<<>>, 0, CallTask(IdleArmDelay, "start_idle_lightshow"))
  /\ midi = <<>>
  /\ ev = Event("init", 0, NoTask, 0)
  /\ inputs = 0
  /\ switches = 0

(***************************************************************************)
(* Input handlers.  midi holds the messages the latest handler or task     *)
(* sent, ev names that handler or task, inputs counts the input events     *)
(* and switches the mode-switch events among them.                         *)
(***************************************************************************)
\* _on_mode_switch, given the task queue left by its cancel call
ModeSwitchFrom(value, pend0) ==
  /\ ev' = Event("mode_switch", value, NoTask,
                IF value > 0 THEN Len(pending) - Len(pend0) ELSE 0)
  /\ inputs' = inputs + 1
  /\ switches' = switches + 1
  /\ IF value > 0
     THEN LET m == NextMode(mode_index)
              r == UpdateModeLeds(led_state, pend0, idle_task, m, "mode")
          IN  /\ mode_index' = m
              /\ led_state' = r.ls
              /\ pending' = r.pend
              /\ midi' = ApplyModeMessages(m, slots) \o UpdatePadsMessages(m, slots)
              /\ pad_colors' = UpdatePadsColors(m, slots)
     ELSE /\ midi' = <<>>
          /\ UNCHANGED <<mode_index, led_state, pending, pad_colors>>
  /\ UNCHANGED <<is_idle, idle_step, idle_task, slots>>

OnModeSwitchKeepTasks(value) == ModeSwitchFrom(value, pending)

OnModeSwitch(value) == ModeSwitchFrom(value, CancelAll(pending))

\* _exit_idle_mode, given the outcome of its test value > 0 and the task
\* queue it finds
ExitIdleFrom(value, pressed, pend) ==
  /\ ev' = Event("button", value, NoTask,
                IF pressed /\ idle_task # 0
                THEN Len(pend) - Len(CancelToken(pend, idle_task)) ELSE 0)
  /\ inputs' = inputs + 1
  /\ UNCHANGED switches
  /\ midi' = <<>>
  /\ IF pressed
     THEN LET pend0 == IF idle_task # 0 THEN CancelToken(pend, idle_task)
                       ELSE pend
              r == UpdateModeLeds(led_state, pend0, 0, mode_index, "exit")
          IN  /\ is_idle' = FALSE
              /\ idle_task' = 0
              /\ led_state' = r.ls
              /\ pending' = r.pend
     ELSE /\ pending' = pend
          /\ UNCHANGED <<is_idle, idle_task, led_state>>
  /\ UNCHANGED <<mode_index, idle_step, pad_colors, slots>>

ExitIdleModeAnyValue(value) == ExitIdleFrom(value, TRUE, pending)

ExitIdleModeRearm(value) ==
  ExitIdleFrom(value, value > 0,
               ScheduleMessage(pending, idle_task,
                               CallTask(IdleArmDelay, "start_idle_lightshow")))

ExitIdleMode(value) == ExitIdleFrom(value, value > 0, pending)

\* _on_brightness_change
BrightnessMessages(ls) ==
  [j \in 1 .. 2 * Len(ls) |->
     LedMessages(ls[(j + 1) \div 2].note, ls[(j + 1) \div 2].color)[2 - (j % 2)]]

OnBrightnessChange(value) ==
  LET ls1 == [i \in 1 .. Len(led_state) |->
                [note |-> led_state[i].note,
                 color |-> ScaleBrightness(led_state[i].color, value)]]
  IN  /\ ev' = Event("brightness", value, NoTask, 0)
      /\ inputs' = inputs + 1
      /\ UNCHANGED switches
      /\ led_state' = ls1
      /\ midi' = BrightnessMessages(ls1)
      /\ UNCHANGED <<mode_index, is_idle, idle_step, idle_task, pad_colors,
                     slots, pending>>

\* the host changes the state of the slot of pad p to s and calls
\* _on_clip_state_change, given the outcome of its test of the mode
ClipChangeFrom(p, s, session) ==
  LET sl == [slots EXCEPT ![p] = s]
      r  == IF session
            THEN ClipRuns([ls |-> led_state, pend |-> pending], idle_task, sl, 0, "clip")
            ELSE [ls |-> led_state, pend |-> pending]
  IN  /\ ev' = Event("clip", p, NoTask, 0)
      /\ inputs' = inputs + 1
      /\ UNCHANGED switches
      /\ slots' = sl
      /\ led_state' = r.ls
      /\ pending' = r.pend
      /\ midi' = <<>>
      /\ UNCHANGED <<mode_index, is_idle, idle_step, idle_task, pad_colors>>

OnClipStateChangeAnyMode(p, s) == ClipChangeFrom(p, s, TRUE)

OnClipStateChange(p, s) == ClipChangeFrom(p, s, mode_index = 0)

\* refresh_state
RefreshState ==
  LET r == UpdateModeLeds(led_state, pending, idle_task, mode_index, "refresh")
  IN  /\ ev' = Event("refresh", 0, NoTask, 0)
      /\ inputs' = inputs + 1
      /\ UNCHANGED switches
      /\ led_state' = r.ls
      /\ pending' = r.pend
      /\ IF mode_index = 0
         THEN /\ midi' = LaunchMessages(slots)
              /\ pad_colors' = LaunchPadColors(slots)
         ELSE /\ midi' = <<>>
              /\ UNCHANGED pad_colors
      /\ UNCHANGED <<mode_index, is_idle, idle_step, idle_task, slots>>

(***************************************************************************)
(* Delivery of the next due task                                           *)
(***************************************************************************)
\* _send_led_color
SendLedColor(t, rest) ==
  /\ led_state' = LedSet(led_state, t.note, t.color)
  /\ midi' = LedMessages(t.note, t.color)
  /\ pending' = rest
  /\ UNCHANGED <<mode_index, is_idle, idle_step, idle_task, pad_colors, slots>>

\* _lightshow_step, entered with the idle flag idle; go is the outcome of its
\* test of the flag
LightshowBody(idle, go, rest) ==
  /\ is_idle' = idle
  /\ midi' = <<>>
  /\ IF go
     THEN LET runs == LightshowRuns(led_state, rest, idle_task, idle_step, 1)
              tk   == FreshToken(runs, idle_task)
          IN  /\ idle_step < MaxIdleSteps
              /\ idle_step' = idle_step + 1
              /\ pending' = ScheduleMessage(runs, idle_task,
                                            CallTask(IdleStepDelay, "lightshow_step"))
              /\ idle_task' = tk
     ELSE /\ pending' = rest
          /\ UNCHANGED <<idle_step, idle_task>>
  /\ UNCHANGED <<mode_index, led_state, pad_colors, slots>>

LightshowStepUnguarded(idle, rest) == LightshowBody(idle, TRUE, rest)

LightshowStep(idle, rest) == LightshowBody(idle, idle, rest)

FireTask ==
  /\ Due(pending) # {}
  /\ LET i    == DueIndex(pending)
         t    == pending[i]
         rest == RemoveAt(pending, i)
     IN  /\ ev' = Event("fire", 0, t, 0)
         /\ UNCHANGED inputs
         /\ UNCHANGED switches
         /\ IF t.fn = "send_led_color" THEN SendLedColor(t, rest)
            ELSE IF t.fn = "start_idle_lightshow" THEN LightshowStep(TRUE, rest)
            ELSE LightshowStep(is_idle, rest)

\* time passes until the next task is due
Tick ==
  /\ pending # <<>>
  /\ Due(pending) = {}
  /\ pending' = Elapse(pending, MinDelay(pending))
  /\ ev' = Event("tick", MinDelay(pending), NoTask, 0)
  /\ midi' = <<>>
  /\ UNCHANGED <<mode_index, is_idle, led_state, idle_step, idle_task,
                 pad_colors, slots, inputs, switches>>

(***************************************************************************)
(* The script under the host: input events arrive between deliveries       *)
(***************************************************************************)
Quiet == Due(pending) = {}

Values == {0, 5}
Levels == {0, 64, 127}
HostChanges == { <<0, Slot(FALSE, FALSE, FALSE, TRUE, FALSE)>>,
                 <<4, Slot(TRUE, TRUE, FALSE, FALSE, FALSE)>> }

\* a run takes up to MaxInputs input events of any kind, or up to
\* MaxSwitches mode-switch presses and nothing else
CanInput == Quiet /\ inputs < MaxInputs

CanSwitch ==
  /\ Quiet
  /\ inputs >= MaxInputs
  /\ inputs = switches
  /\ inputs < MaxSwitches

Next ==
  \/ \E v \in Values : CanInput /\ OnModeSwitch(v)
  \/ CanSwitch /\ OnModeSwitch(5)
  \/ \E v \in Values : CanInput /\ ExitIdleMode(v)
  \/ \E v \in Levels : CanInput /\ OnBrightnessChange(v)
  \/ \E h \in HostChanges : CanInput /\ OnClipStateChange(h[1], h[2])
  \/ CanInput /\ RefreshState
  \/ FireTask
  \/ Tick

Spec == Init /\ [][Next]_vars

(***************************************************************************)
(* _interpolate_color and _on_brightness_change called directly, with      *)
(* arguments and stored colours drawn from sample sets                     *)
(***************************************************************************)
UnitNotes == {36, 40}
\* the first note above the pad grid
OffGridNote == FirstPad + NumRows * NumCols
UnitColors == { <<0, 0, 0>>, <<127, 0, 127>>, <<100, 37, 1>>, <<1, 90, 64>> }
UnitTargets == { <<127, 0, 127>>, <<0, 0, 0>>, <<90, 3, 126>> }
UnitDurations == {0, 500, 1000}
UnitLevels == 0 .. ChannelMax

UnitLedStates ==
  {<<>>}
  \cup { <<[note |-> n, color |-> c]>> : n \in UnitNotes, c \in UnitColors }
  \cup { <<[note |-> 36, color |-> c], [note |-> 40, color |-> d]>> :
           c \in UnitColors, d \in UnitColors }

CallInterpolate(note, target, dur, steps) ==
  LET r == InterpolateColor(led_state, pending, idle_task, note, target, dur,
                            steps, "call")
  IN  /\ ev' = Event("interpolate", 0,
                     WriteTask(dur, note, NoColor, 0, steps, target, "call"), 0)
      /\ inputs' = inputs + 1
      /\ led_state' = r.ls
      /\ pending' = r.pend
      /\ midi' = <<>>
      /\ UNCHANGED <<mode_index, is_idle, idle_step, idle_task, pad_colors,
                     slots, switches>>

\* _lightshow_step called directly
CallLightshowStep ==
  /\ ev' = Event("lightshow_step", 0, NoTask, 0)
  /\ inputs' = inputs + 1
  /\ UNCHANGED switches
  /\ LightshowStep(is_idle, pending)

InitUnit ==
  /\ mode_index = 0
  /\ is_idle = FALSE
  /\ led_state \in UnitLedStates
  /\ idle_step = 0
  /\ idle_task = 0
  /\ slots = [p \in Pads |-> EmptySlot]
  /\ pad_colors = LaunchPadColors(slots)
  /\ pending = <<>>
  /\ midi = <<>>
  /\ ev = Event("init", 0, NoTask, 0)
  /\ inputs = 0
  /\ switches = 0

\* one call from each sampled state
CanCall == Quiet /\ inputs = 0

NextUnit ==
  \/ \E n \in UnitNotes \cup {OffGridNote}, t \in UnitTargets,
        d \in UnitDurations, st \in 1 .. MaxSteps :
       CanCall /\ CallInterpolate(n, t, d, st)
  \/ \E v \in UnitLevels : CanCall /\ OnBrightnessChange(v)
  \/ CanCall /\ CallLightshowStep
  \/ FireTask
  \/ Tick

SpecUnit == InitUnit /\ [][NextUnit]_vars

(***************************************************************************)
(* _on_clip_state_change under every combination of the slot flags, in     *)
(* every mode                                                              *)
(***************************************************************************)
ClipPads == {0, 7}

InitClip ==
  /\ mode_index \in 0 .. NumModes - 1
  /\ is_idle = FALSE
  /\ led_state = <<>>
  /\ idle_step = 0
  /\ idle_task = 0
  /\ slots = [p \in Pads |-> EmptySlot]
  /\ pad_colors = UpdatePadsColors(mode_index, slots)
  /\ pending = <<>>
  /\ midi = <<>>
  /\ ev = Event("init", 0, NoTask, 0)
  /\ inputs = 0
  /\ switches = 0

\* one change from each initial state
CanChange == Quiet /\ inputs = 0

NextClip ==
  \/ \E p \in ClipPads, s \in AllSlots : CanChange /\ OnClipStateChange(p, s)
  \/ FireTask
  \/ Tick

SpecClip == InitClip /\ [][NextClip]_vars

(***************************************************************************)
(* Button events that arrive at any moment, also while tasks are due       *)
(***************************************************************************)
NextBurst ==
  \/ \E v \in Values : inputs < MaxPresses /\ ExitIdleMode(v)
  \/ FireTask
  \/ Tick

SpecBurst == Init /\ [][NextBurst]_vars

(***************************************************************************)
(* The host keeps delivering: a due task is delivered, and time passes     *)
(* while tasks wait                                                        *)
(***************************************************************************)
NextLive ==
  \/ CanInput /\ RefreshState
  \/ CanInput /\ OnModeSwitch(5)
  \/ CanInput /\ ExitIdleMode(5)
  \/ FireTask
  \/ Tick

SpecLive == Init /\ [][NextLive]_vars /\ WF_vars(FireTask) /\ WF_vars(Tick)

(***************************************************************************)
(* Properties                                                              *)
(***************************************************************************)

\* C1: the mode is always one of Session (0), Mixer (1), Effects (2) and
\* starts at Session; a mode-switch press (value > 0) moves it to its cyclic
\* successor 0 -> 1 -> 2 -> 0, so that three presses in a row return to the
\* mode held before them; no other step (release, button, brightness, clip
\* change, refresh, task delivery, passing of time) changes the mode.
C1_ModeCycle ==
  /\ mode_index = 0
  /\ [][ /\ mode_index' \in {0, 1, 2}
         /\ IF ev'.kind = "mode_switch" /\ ev'.value > 0
            THEN mode_index' = (IF mode_index = 0 THEN 1
                                ELSE IF mode_index = 1 THEN 2 ELSE 0)
            ELSE mode_index' = mode_index ]_vars

\* C1 witness: the third press of a run has brought the mode back to Session
C1_BackAtSession ==
  /\ ev.kind = "mode_switch"
  /\ ev.value > 0
  /\ switches = 3
  /\ mode_index = 0

\* C2: right after a mode-switch press the task queue holds exactly the
\* DefaultSteps + 1 indicator writes the press scheduled (address 40, towards
\* the colour of the new mode): every task that was pending before the press,
\* LED write or idle step, is gone and so never fires.
C2_SwitchCancelsAll ==
  [][ (ev'.kind = "mode_switch" /\ ev'.value > 0) =>
        /\ Len(pending') = DefaultSteps + 1
        /\ \A i \in 1 .. Len(pending') :
             /\ pending'[i].fn = "send_led_color"
             /\ pending'[i].note = ModeLed
             /\ pending'[i].origin = "mode"
             /\ pending'[i].k = i - 1
             /\ pending'[i].target = ModeColor(mode_index') ]_vars

\* C2 witness: a press that arrived while the idle lightshow was running over
\* a lit address and cancelled its idle step together with at least one whole
\* rainbow interpolation
C2_SwitchDuringLightshow ==
  /\ ev.kind = "mode_switch"
  /\ ev.value > 0
  /\ is_idle
  /\ ev.cancelled >= IdleSteps + 2
  /\ Len(pending) = DefaultSteps + 1

\* C3: a button press (value > 0) that arrives while the idle lightshow is
\* active leaves no idle task pending: neither the idle step nor any write of
\* an interpolation the idle steps started.
C3_IdleExitCancelsIdleGroup ==
  [][ (ev'.kind = "button" /\ ev'.value > 0 /\ is_idle) =>
        \A i \in 1 .. Len(pending') :
          /\ pending'[i].fn # "lightshow_step"
          /\ pending'[i].origin # "idle" ]_vars

\* C4: the write for k = steps of an interpolation stores exactly the target
\* of that interpolation: right after it is delivered the address holds the
\* target colour.
C4_EndpointExact ==
  (ev.kind = "fire" /\ ev.task.fn = "send_led_color" /\ ev.task.k = ev.task.steps) =>
    /\ LedHas(led_state, ev.task.note)
    /\ LedGet(led_state, ev.task.note) = ev.task.target

\* C4 witness: the last write of a three-step interpolation towards
\* (90, 3, 126) has been delivered
C4_LastWriteDelivered ==
  /\ ev.kind = "fire"
  /\ ev.task.k = ev.task.steps
  /\ ev.task.steps = 3
  /\ ev.task.target = <<90, 3, 126>>

\* C5: with address 40 at (0,0,0), interpolate(40, (127,0,127), 1.0, 4)
\* schedules exactly five writes, at delays 0, 250, 500, 750, 1000 ms, with
\* the colours (0,0,0), (32,0,32), (64,0,64), (95,0,95), (127,0,127).
C5_ScenarioSchedule ==
  ( /\ ev.kind = "interpolate"
    /\ ev.task.note = 40
    /\ ev.task.target = <<127, 0, 127>>
    /\ ev.task.delay = 1000
    /\ ev.task.steps = 4
    /\ LedGet(led_state, 40) = <<0, 0, 0>> ) =>
    /\ Len(pending) = 5
    /\ [i \in 1 .. 5 |-> pending[i].delay] = <<0, 250, 500, 750, 1000>>
    /\ [i \in 1 .. 5 |-> pending[i].color] =
         << <<0, 0, 0>>, <<32, 0, 32>>, <<64, 0, 64>>, <<95, 0, 95>>, <<127, 0, 127>> >>

C7_IdleTriggerUnconditional ==
  \/ idle_step >= 1
  \/ \E i \in 1 .. Len(pending) : pending[i].fn = "start_idle_lightshow"

\* C8: whenever the idle flag is true an idle-step task is pending (so a mode
\* switch during the lightshow, which cancels the idle step, also clears the
\* flag).
C8_IdleFlagHasStep ==
  is_idle => \E i \in 1 .. Len(pending) : pending[i].fn = "lightshow_step"

\* C9: a brightness event with level L in 0..127 schedules nothing and
\* replaces every stored colour, channel by channel, by floor(channel * L /
\* 127), sending the two messages of each new colour; level 127 changes no
\* stored colour, level 0 makes them all (0,0,0), and the scaled channel never
\* decreases when the level grows.
C9_BrightnessScaling ==
  [][ ev'.kind = "brightness" =>
        LET L == ev'.value
        IN  /\ L \in 0 .. 127
            /\ pending' = pending
            /\ Len(led_state') = Len(led_state)
            /\ Len(midi') = 2 * Len(led_state)
            /\ \A i \in 1 .. Len(led_state) :
                 LET c == led_state[i].color
                     d == led_state'[i].color
                 IN  /\ led_state'[i].note = led_state[i].note
                     /\ \A ch \in 1 .. 3 : d[ch] = (c[ch] * L) \div 127
                     /\ midi'[2 * i - 1] = <<144, led_state[i].note, (d[1] % 16) * 16 + (d[2] % 16)>>
                     /\ midi'[2 * i] = <<146, led_state[i].note, d[3]>>
                     /\ (L = 127 => d = c)
                     /\ (L = 0 => d = <<0, 0, 0>>)
                     /\ \A M \in 0 .. L, ch \in 1 .. 3 :
                          ScaleBrightness(c, M)[ch] <= d[ch] ]_vars

\* C9 witness: a brightness event at a level strictly between 0 and 127 over
\* two stored colours, one of them changed by it
C9_DimmedTwoLeds ==
  /\ ev.kind = "brightness"
  /\ ev.value = 64
  /\ Len(led_state) = 2
  /\ led_state[2].color = <<50, 18, 0>>

\* C10: every note-on message sent for an LED address comes from a write that
\* stored its colour in _led_state: after each handler or task, each note-on
\* message it sent is for an address _led_state holds, and carries the packed
\* red and green of the colour stored there.
C10_OutputOnlyThroughLedState ==
  \A j \in 1 .. Len(midi) :
    midi[j][1] = NoteOn =>
      /\ LedHas(led_state, midi[j][2])
      /\ midi[j][3] = PackRG(LedGet(led_state, midi[j][2]))


\* C11: idle-exit is idempotent: a second button press (value > 0) that
\* follows a first one with no task delivered in between changes neither the
\* idle flag, nor the idle-task handle, nor _led_state, nor the pending tasks.
C11_IdleExitIdempotent ==
  [][ ( /\ ev.kind = "button" /\ ev.value > 0
        /\ ev'.kind = "button" /\ ev'.value > 0 ) =>
        /\ is_idle' = is_idle
        /\ idle_task' = idle_task
        /\ led_state' = led_state
        /\ pending' = pending ]_vars


\* C12: an idle step that runs while the idle flag is false is a no-op: it
\* schedules no interpolation, does not advance the step counter, does not
\* reschedule itself and leaves _led_state and the pending tasks unchanged.
C12_IdleStepNoOpWhenNotIdle ==
  [][ (ev'.kind = "lightshow_step" /\ ~is_idle) =>
        /\ pending' = pending
        /\ led_state' = led_state
        /\ idle_step' = idle_step
        /\ idle_task' = idle_task
        /\ is_idle' = is_idle
        /\ midi' = <<>> ]_vars

C12_StepCalledWithLedsStored ==
  /\ ev.kind = "lightshow_step"
  /\ ~is_idle
  /\ Len(led_state) = 2
  /\ pending = <<>>


\* C13: at any time at most one idle-loop task (the idle trigger or an idle
\* step's reschedule) is pending, whatever sequence of trigger firing, step
\* firings, button presses and mode switches has happened.
C13_OneIdleStepPending ==
  Cardinality({ i \in 1 .. Len(pending) :
                  pending[i].fn \in {"lightshow_step", "start_idle_lightshow"} }) <= 1

C13_LoopRunningAfterInput ==
  /\ is_idle
  /\ idle_step = MaxIdleSteps
  /\ inputs > 0
  /\ \E i \in 1 .. Len(pending) :
       pending[i].fn = "lightshow_step" /\ pending[i].tok = idle_task


\* two pending writes scheduled by the same _interpolate_color call
SameRun(a, b) ==
  /\ a.fn = "send_led_color"
  /\ b.fn = "send_led_color"
  /\ a.tok - a.k = b.tok - b.k

\* C14: the writes of one _interpolate_color call are scheduled with delays
\* that do not decrease in k, and they are delivered in increasing k order
\* (equal fire times in submission order): when a write is delivered, every
\* write of its run that is still pending has a larger k, so the write for
\* k = steps is the last one of the run.
C14_RunFiresInStepOrder ==
  /\ \A i, j \in 1 .. Len(pending) :
       (i < j /\ SameRun(pending[i], pending[j])) =>
         /\ pending[i].k < pending[j].k
         /\ pending[i].delay <= pending[j].delay
  /\ ev.kind = "fire" =>
       \A i \in 1 .. Len(pending) :
         SameRun(ev.task, pending[i]) => pending[i].k > ev.task.k

C14_TieFiredInSubmissionOrder ==
  /\ ev.kind = "fire"
  /\ ev.task.origin = "call"
  /\ ev.task.k = 1
  /\ Len(pending) >= 2
  /\ \A i \in 1 .. Len(pending) :
       SameRun(ev.task, pending[i]) /\ pending[i].delay = 0


\* C15: a clip-state change is acted on only in Session mode.  In Mixer or
\* Effects mode it schedules nothing and leaves _led_state, the idle state
\* and the pending tasks unchanged; in Session mode it keeps the pending
\* tasks and schedules, for the changed position, a 21-write interpolation
\* over 200 ms towards the policy colour of the slot.
C15_ClipChangeOnlyInSession ==
  [][ ev'.kind = "clip" =>
        IF mode_index # 0
        THEN /\ pending' = pending
             /\ led_state' = led_state
             /\ is_idle' = is_idle
             /\ idle_step' = idle_step
             /\ idle_task' = idle_task
             /\ midi' = <<>>
        ELSE LET p     == ev'.value
                 added == SubSeq(pending', Len(pending) + 1, Len(pending'))
                 run   == SelectSeq(added, LAMBDA t : t.note = PadNote(p))
                 want  == ColorToRgb(GetClipColor(slots'[p]))
             IN  /\ SubSeq(pending', 1, Len(pending)) = pending
                 /\ Len(run) = DefaultSteps + 1
                 /\ \A j \in 1 .. Len(run) :
                      /\ run[j].fn = "send_led_color"
                      /\ run[j].k = j - 1
                      /\ run[j].delay = ((j - 1) * ClipDuration) \div DefaultSteps
                      /\ run[j].target = want
                 /\ run[1].delay = 0
                 /\ run[Len(run)].delay = ClipDuration
                 /\ run[Len(run)].color = want ]_vars

\* C15 witness: a clip started recording while the script was in Mixer mode
C15_ClipChangeInMixer ==
  /\ ev.kind = "clip"
  /\ mode_index = 1
  /\ slots[ev.value].is_recording
  /\ pending = <<>>


\* C16: a button event or a mode-switch event with value 0 (a release)
\* changes nothing: mode, idle flag, idle-task handle, idle step counter,
\* _led_state, pad colours and pending tasks stay as they are and no MIDI
\* message is sent.
C16_ReleaseChangesNothing ==
  [][ (ev'.kind \in {"button", "mode_switch"} /\ ev'.value = 0
       /\ inputs' = inputs + 1) =>
        /\ mode_index' = mode_index
        /\ is_idle' = is_idle
        /\ idle_task' = idle_task
        /\ idle_step' = idle_step
        /\ led_state' = led_state
        /\ pad_colors' = pad_colors
        /\ pending' = pending
        /\ midi' = <<>> ]_vars

\* C16 witness: a button released while the idle lightshow runs and its next
\* step is pending
C16_ReleaseDuringLightshow ==
  /\ ev.kind = "button"
  /\ ev.value = 0
  /\ is_idle
  /\ \E i \in 1 .. Len(pending) : pending[i].tok = idle_task


\* C17: in every reachable state, every address stored in _led_state holds a
\* valid colour: three integer channels, each in 0..127, whatever the
\* interleaving of interpolation writes, idle rainbow writes, brightness
\* events, mode switches and clip-state changes.
C17_LedStateValidColours ==
  \A i \in 1 .. Len(led_state) :
    /\ Len(led_state[i].color) = 3
    /\ \A c \in 1 .. 3 : led_state[i].color[c] \in 0 .. ChannelMax

\* C17 witness: a rainbow write of the idle lightshow has just been stored,
\* past the first step of its run and with all three channels lit
C17_RainbowWriteStored ==
  /\ ev.kind = "fire"
  /\ ev.task.origin = "idle"
  /\ ev.task.k >= 1
  /\ LedGet(led_state, ev.task.note) = ev.task.color
  /\ \A c \in 1 .. 3 : ev.task.color[c] > 0


\* C18: a request for an address outside the pad grid (notes 36..43) is
\* rejected: an _interpolate_color call for such a note creates no
\* _led_state entry and schedules no task.
C18_OffGridRejected ==
  (ev.kind = "interpolate" /\ ev.task.note \notin { PadNote(p) : p \in Pads }) =>
    /\ ~LedHas(led_state, ev.task.note)
    /\ \A i \in 1 .. Len(pending) : pending[i].note # ev.task.note


\* C19: after a button press (value > 0) that comes once the idle lightshow
\* has started, and with no further input event, the script quiesces:
\* eventually no task is pending, the idle flag is false and address 40 holds
\* exactly the indicator colour of the current mode.
C19_QuiescesAfterIdleExit ==
  \A n \in 1 .. MaxInputs :
    (ev.kind = "button" /\ ev.value > 0 /\ idle_step >= 1 /\ inputs = n)
      ~> \/ inputs > n
         \/ /\ pending = <<>>
            /\ ~is_idle
            /\ LedHas(led_state, ModeLed)
            /\ LedGet(led_state, ModeLed) =
                 (CASE mode_index = 0 -> <<127, 0, 127>>
                    [] mode_index = 1 -> <<0, 127, 127>>
                    [] mode_index = 2 -> <<127, 127, 0>>)

\* C19 witness: a press has just cancelled the pending idle step while
\* rainbow writes for address 40 are still waiting
C19_PressStopsRunningLightshow ==
  /\ ev.kind = "button"
  /\ ev.value > 0
  /\ ev.cancelled >= 1
  /\ ~is_idle
  /\ \E i \in 1 .. Len(pending) :
       pending[i].origin = "idle" /\ pending[i].note = ModeLed


\* C20: in Session mode with the idle lightshow inactive, once every task
\* pending after a clip-state change has been delivered with no further
\* input, every pad address 36..43 holds the clip-policy colour of its slot,
\* also when an earlier run on the same address was in flight at the change.
C20_PadsSettleAtClipColour ==
  (ev.input = "clip" /\ mode_index = 0 /\ ~is_idle /\ pending = <<>>) =>
    \A p \in Pads :
      /\ LedHas(led_state, PadNote(p))
      /\ LedGet(led_state, PadNote(p)) = ColorToRgb(GetClipColor(slots[p]))

====
